---- MODULE Spec2Model ----
(***************************************************************************)
(* Nanoparticle aggregation (src/Main.cpp): the particle store and the     *)
(* per-frame update of the free particles.                                 *)
(*                                                                         *)
(* float values are fixed-point integers: one grid step is 0.0005/Scale,   *)
(* so every constant of the program is a whole number of steps.  A float   *)
(* operation whose exact result is off the grid is rounded to the nearest  *)
(* grid value (RDiv), as the float operation rounds to the nearest float.  *)
(***************************************************************************)
EXTENDS Integers, Sequences, FiniteSets, TLC

\* ---------------------------------------------------------------- bounds
\* Calls of update that are followed, free particles created (200 in the
\* program), calls counted in the attraction scenario, and grid steps per
\* 0.0005.
MaxTicks == 2
NUM_PARTICLES == 2
AttachWithin == 11
Scale == 4

\* ------------------------------------------------------------- constants
ONE == 2000 * Scale
PARTICLE_RADIUS == 40 * Scale
\* An attraction range of 0.05, below the attachment threshold of the seed.
NarrowRange == 100 * Scale
ATTRACTION_RANGE == 300 * Scale
GROWTH_RATE == 10 * Scale
BROWNIAN_MOTION == 2 * Scale
\* A force of the same size that pushes away from the attached particle.
RepulsionForce == -Scale
ATTRACTION_FORCE == Scale
BOUNDARY == ONE

\* --------------------------------------------------------------- numbers
\* a / b for b > 0, rounded to the nearest grid value (halves away from 0).
RDiv(a, b) == IF a >= 0 THEN (2 * a + b) \div (2 * b)
                        ELSE -((2 * (-a) + b) \div (2 * b))

RECURSIVE SqrtSearch(_, _, _)
SqrtSearch(n, lo, hi) ==
    IF lo >= hi THEN lo
    ELSE LET mid == (lo + hi + 1) \div 2
         IN  IF mid * mid <= n THEN SqrtSearch(n, mid, hi)
                               ELSE SqrtSearch(n, lo, mid - 1)

\* sqrt(n) rounded to the nearest grid value.
Sqrt(n) == LET f == SqrtSearch(n, 0, 46340)
           IN  IF n - f * f > f THEN f + 1 ELSE f

\* A bounce that reverses the velocity without halving it.
MulNegHalfFull(v) == -v

\* v *= -0.5f
MulNegHalf(v) == RDiv(-v, 2)

\* ------------------------------------------------------------- particles
\* Particle(x, y, z, attached): radius PARTICLE_RADIUS, zero velocity.
Particle(x, y, z, attached) ==
    [x |-> x, y |-> y, z |-> z, radius |-> PARTICLE_RADIUS,
     isAttached |-> attached, dx |-> 0, dy |-> 0, dz |-> 0]

\* The square of distance(a, b).  sqrt is increasing, so the program's three
\* comparisons of distances are made on the squares, where they are exact.
distance2(a, b) ==
    LET ddx == a.x - b.x
        ddy == a.y - b.y
        ddz == a.z - b.z
    IN  ddx * ddx + ddy * ddy + ddz * ddz

\* -------------------------------------------------------- the rand() uses
\* (rand() % 200 - 100) / 100.0f
InitCoord(r) == RDiv(((r % 200) - 100) * ONE, 100)
\* (rand() % 100 - 50) / 50000.0f
InitVelocity(r) == RDiv(((r % 100) - 50) * ONE, 50000)
\* The Brownian increment with the modulus of the position draw.
BrownianWide(r) == ((r % 200) - 100) * BROWNIAN_MOTION

\* (rand() % 100 - 50) * BROWNIAN_MOTION
Brownian(r) == ((r % 100) - 50) * BROWNIAN_MOTION

\* The values rand() returns, three calls at a time (x, y, z), at each use.
RandPosition == { <<100, 100, 100>>, <<105, 100, 100>>, <<109, 100, 100>>,
                  <<0, 199, 100>> }
RandVelocity == { <<50, 50, 50>>, <<0, 75, 50>> }
RandBrownian == { <<50, 50, 50>>, <<0, 99, 50>> }
Calm == <<50, 50, 50>>
\* Fewer of them, all near the seed, for the comparison of orders.
NearPosition == { <<104, 100, 100>>, <<108, 100, 100>>, <<107, 86, 100>> }
NearVelocity == { <<50, 50, 50>> }

\* ------------------------------------------------------- updateParticles
\* Boundary checks that damp the velocity and leave the position.
BounceNoClamp(pos, vel) ==
    IF pos < -BOUNDARY \/ pos > BOUNDARY THEN <<pos, MulNegHalf(vel)>>
    ELSE <<pos, vel>>

\* One axis of the boundary checks: <<position, velocity>> after them.
Bounce(pos, vel) ==
    IF pos < -BOUNDARY THEN <<-BOUNDARY, MulNegHalf(vel)>>
    ELSE IF pos > BOUNDARY THEN <<BOUNDARY, MulNegHalf(vel)>>
    ELSE <<pos, vel>>

\* Brownian motion, position update and boundary checks of a free particle;
\* r holds the three values rand() returns.
Move(p, r) ==
    LET vx == p.dx + Brownian(r[1])
        vy == p.dy + Brownian(r[2])
        vz == p.dz + Brownian(r[3])
        bx == Bounce(p.x + vx, vx)
        by == Bounce(p.y + vy, vy)
        bz == Bounce(p.z + vz, vz)
    IN  [p EXCEPT !.x = bx[1], !.dx = bx[2],
                  !.y = by[1], !.dy = by[2],
                  !.z = bz[1], !.dz = bz[2]]

\* The scan for the nearest attached particle: its index in ps, 0 for
\* nullptr.  best is the nearest among ps[1..i-1]; minDist starts at INFINITY.
RECURSIVE NearestFrom(_, _, _, _)
NearestFrom(ps, p, i, best) ==
    IF i > Len(ps) THEN best
    ELSE IF /\ ps[i].isAttached
            /\ \/ best = 0
               \/ distance2(p, ps[i]) < distance2(p, ps[best])
         THEN NearestFrom(ps, p, i + 1, i)
         ELSE NearestFrom(ps, p, i + 1, best)

nearestAttached(ps, p) == NearestFrom(ps, p, 1, 0)

\* minDist < ATTRACTION_RANGE
InRange(p, n) == distance2(p, n) < ATTRACTION_RANGE * ATTRACTION_RANGE

\* A direction that falls back to the x axis when the length is zero.
DirectionDefaultAxis(p, n) ==
    LET dirX == n.x - p.x
        dirY == n.y - p.y
        dirZ == n.z - p.z
        length == Sqrt(dirX * dirX + dirY * dirY + dirZ * dirZ)
    IN  IF length > 0
        THEN <<RDiv(dirX * ONE, length), RDiv(dirY * ONE, length),
               RDiv(dirZ * ONE, length)>>
        ELSE <<ONE, 0, 0>>

\* The direction to n, normalized when its length is positive.
Direction(p, n) ==
    LET dirX == n.x - p.x
        dirY == n.y - p.y
        dirZ == n.z - p.z
        length == Sqrt(dirX * dirX + dirY * dirY + dirZ * dirZ)
    IN  IF length > 0
        THEN <<RDiv(dirX * ONE, length), RDiv(dirY * ONE, length),
               RDiv(dirZ * ONE, length)>>
        ELSE <<dirX, dirY, dirZ>>

\* p.dx += dirX * ATTRACTION_FORCE, and so for y and z.
Attract(p, n) ==
    LET dir == Direction(p, n)
    IN  [p EXCEPT !.dx = @ + RDiv(dir[1] * ATTRACTION_FORCE, ONE),
                  !.dy = @ + RDiv(dir[2] * ATTRACTION_FORCE, ONE),
                  !.dz = @ + RDiv(dir[3] * ATTRACTION_FORCE, ONE)]

\* (nearestAttached->radius + p.radius) * 0.9f
AttachThreshold(p, n) == RDiv((n.radius + p.radius) * 9, 10)

\* minDist < (nearestAttached->radius + p.radius) * 0.9f
Collides(p, n) ==
    distance2(p, n) < AttachThreshold(p, n) * AttachThreshold(p, n)

\* An attachment that leaves the velocity as it is.
AttachMoving(p) ==
    [p EXCEPT !.isAttached = TRUE, !.radius = @ + GROWTH_RATE]

\* p.isAttached = true; p.radius += GROWTH_RATE; p.dx = p.dy = p.dz = 0.0f
Attach(p) ==
    [p EXCEPT !.isAttached = TRUE, !.radius = @ + GROWTH_RATE,
              !.dx = 0, !.dy = 0, !.dz = 0]

\* The body of the loop without the skip of attached particles.
updateOneNoSkip(ps, i, r) ==
    LET p == Move(ps[i], IF r = <<>> THEN Calm ELSE r)
        k == nearestAttached(ps, p)
    IN  IF k # 0 /\ InRange(p, ps[k])
        THEN LET q == Attract(p, ps[k])
             IN  IF Collides(q, ps[k]) THEN Attach(q) ELSE q
        ELSE p

\* The body of the loop for particle i of ps: the particle it leaves.
updateOne(ps, i, r) ==
    IF ps[i].isAttached THEN ps[i]
    ELSE LET p == Move(ps[i], r)
             k == nearestAttached(ps, p)
         IN  IF k # 0 /\ InRange(p, ps[k])
             THEN LET q == Attract(p, ps[k])
                  IN  IF Collides(q, ps[k]) THEN Attach(q) ELSE q
             ELSE p

\* The loop over particles 1..n, in place; b[i] are particle i's rand() values.
RECURSIVE updateUpTo(_, _, _)
updateUpTo(ps, b, n) ==
    IF n = 0 THEN ps
    ELSE LET before == updateUpTo(ps, b, n - 1)
         IN  [before EXCEPT ![n] = updateOne(before, n, b[n])]

\* The loop stopping one particle short of the end of the vector.
updateAllButLast(ps, b) == updateUpTo(ps, b, Len(ps) - 1)

\* for (auto& p : particles) { ... }
updateParticles(ps, b) == updateUpTo(ps, b, Len(ps))

\* ------------------------------------------------------------------ state
VARIABLES
    particles,   \* std::vector<Particle> particles
    phase,       \* "start" before initializeSimulation, "ready" after it,
                 \* "running" once update has run
    ticks,       \* the number of calls of update, as far as it is counted
    prev,        \* particles as they were when update was last called
    brown        \* the rand() values update last drew, per particle

vars == <<particles, phase, ticks, prev, brown>>

Init ==
    /\ particles = <<>>
    /\ phase = "start"
    /\ ticks = 0
    /\ prev = <<>>
    /\ brown = <<>>

\* A free particle of initializeSimulation from its six rand() values.
FreeParticle(rp, rv) ==
    [Particle(InitCoord(rp[1]), InitCoord(rp[2]), InitCoord(rp[3]), FALSE)
        EXCEPT !.dx = InitVelocity(rv[1]), !.dy = InitVelocity(rv[2]),
               !.dz = InitVelocity(rv[3])]

\* A seed left at the radius of the constructor.
SeededPlain(ps) == Append(ps, Particle(0, 0, 0, TRUE))

\* The seed: emplace_back(0, 0, 0, true), then its radius doubled.
Seeded(ps) ==
    LET withSeed == Append(ps, Particle(0, 0, 0, TRUE))
    IN  [withSeed EXCEPT ![1].radius = PARTICLE_RADIUS * 2]

\* initializeSimulation with its rand() values drawn from positions and
\* velocities.
initializeWith(positions, velocities) ==
    /\ phase = "start"
    /\ \E rp \in [1..NUM_PARTICLES -> positions],
          rv \in [1..NUM_PARTICLES -> velocities] :
          particles' = Seeded(particles) \o
                       [i \in 1..NUM_PARTICLES |-> FreeParticle(rp[i], rv[i])]
    /\ phase' = "ready"
    /\ UNCHANGED <<ticks, prev, brown>>

initializeSimulation == initializeWith(RandPosition, RandVelocity)

\* The rand() values one call of updateParticles may draw: three for every
\* particle that is free when the call starts, none for the others.
Draws(ps, triples) ==
    { b \in [1..Len(ps) -> triples \cup {<<>>}] :
        \A i \in 1..Len(ps) : (b[i] = <<>>) <=> ps[i].isAttached }

Step(b) ==
    /\ particles' = updateParticles(particles, b)
    /\ prev' = particles
    /\ brown' = b
    /\ phase' = "running"

\* update(int): the timer callback, which re-arms itself.
update ==
    /\ phase # "start"
    /\ ticks < MaxTicks
    /\ \E b \in Draws(particles, RandBrownian) : Step(b)
    /\ ticks' = ticks + 1

Next == initializeSimulation \/ update

Spec == Init /\ [][Next]_vars

\* The same program with the free particles created near the seed.
initializeNear == initializeWith(NearPosition, NearVelocity)

NextNear == initializeNear \/ update

SpecNear == Init /\ [][NextNear]_vars

\* --------------------------------------------- one tick, as a function
\* updateParticles applied to particle vectors that initializeSimulation
\* does not produce (a free particle outside the cube), with every Brownian
\* draw zero (rand() % 100 = 50).
CalmDraws(ps) == [i \in 1..Len(ps) |-> IF ps[i].isAttached THEN <<>> ELSE Calm]

BounceCoords == { -BOUNDARY - 20 * Scale, 0, BOUNDARY, BOUNDARY + 20 * Scale }
BounceVelocities == { -200 * Scale, 0, 200 * Scale }
\* The attached particle: the seed, or a particle attached on the boundary.
BounceAnchors == { Seeded(<<>>)[1], Attach(Particle(BOUNDARY, 0, 0, FALSE)) }

InitBounce ==
    /\ \E a \in BounceAnchors, c \in BounceCoords \X BounceCoords \X BounceCoords,
          v \in BounceVelocities \X BounceVelocities \X BounceVelocities :
          particles = << a,
                         [Particle(c[1], c[2], c[3], FALSE)
                             EXCEPT !.dx = v[1], !.dy = v[2], !.dz = v[3]] >>
    /\ phase = "ready"
    /\ ticks = 0
    /\ prev = <<>>
    /\ brown = <<>>

updateCalm ==
    /\ ticks < MaxTicks
    /\ Step(CalmDraws(particles))
    /\ ticks' = ticks + 1

SpecBounce == InitBounce /\ [][updateCalm]_vars

\* ------------------------------------------------ the attraction scenario
\* The seed and one free particle at rest at 0.5 * ATTRACTION_RANGE from it,
\* every Brownian draw zero.  update has no condition: the timer calls it
\* again and again, and the calls are counted up to AttachWithin.
HalfRange == ATTRACTION_RANGE \div 2
AttractCoords ==
    { c * Scale : c \in {-150, -120, -100, -90, -50, 0, 50, 90, 100, 120, 150} }

InitAttract ==
    /\ \E c \in AttractCoords \X AttractCoords \X AttractCoords :
          /\ c[1] * c[1] + c[2] * c[2] + c[3] * c[3] = HalfRange * HalfRange
          /\ particles = Seeded(<<>>) \o << Particle(c[1], c[2], c[3], FALSE) >>
    /\ phase = "ready"
    /\ ticks = 0
    /\ prev = <<>>
    /\ brown = <<>>

updateAttract ==
    /\ Step(CalmDraws(particles))
    /\ ticks' = IF ticks < AttachWithin THEN ticks + 1 ELSE ticks

SpecAttract == InitAttract /\ [][updateAttract]_vars

\* ----------------------------------------------------------------- claims
Ran == phase = "running"
Abs(a) == IF a < 0 THEN -a ELSE a
Idx == 1..Len(particles)
Axes == 1..3
Pos(p) == <<p.x, p.y, p.z>>
Vel(p) == <<p.dx, p.dy, p.dz>>
Free(ps) == { i \in 1..Len(ps) : ~ps[i].isAttached }

\* What the last call of updateParticles saw when it reached the free
\* particle i: the particle after its move (moved), whether the scan found an
\* attached particle (found) and the one it found (near), in the vector with
\* particles 1..i-1 already updated.
Observed(i) ==
    LET seen == updateUpTo(prev, brown, i - 1)
        p == Move(prev[i], brown[i])
        k == nearestAttached(seen, p)
    IN  [moved |-> p, found |-> k # 0, index |-> k,
         near |-> IF k # 0 THEN seen[k] ELSE p]
Observations == { <<i, Observed(i)>> : i \in Free(prev) }

\* C1. Attachment irreversibility: an attached particle has zero velocity,
\* and a particle attached before a call of updateParticles is attached
\* after it, at the same position (the seed included).
AttachmentIrreversible ==
    /\ \A i \in Idx : particles[i].isAttached => Vel(particles[i]) = <<0, 0, 0>>
    /\ Ran => \A i \in Idx :
                prev[i].isAttached =>
                    /\ particles[i].isAttached
                    /\ Pos(particles[i]) = Pos(prev[i])

\* A particle other than the seed went into a call already attached.
AttachedEarlierWitness ==
    /\ Ran
    /\ \E i \in Idx : i > 1 /\ prev[i].isAttached /\ particles[i].isAttached

\* C2. Radius monotonicity: a call of updateParticles never shrinks a radius,
\* changes it only for a particle that goes from free to attached in that
\* call, and then by exactly GROWTH_RATE; so a radius grows at most once.
RadiusMonotone ==
    /\ Ran => \A i \in Idx :
                /\ particles[i].radius >= prev[i].radius
                /\ particles[i].radius # prev[i].radius =>
                      /\ ~prev[i].isAttached
                      /\ particles[i].isAttached
                      /\ particles[i].radius = prev[i].radius + GROWTH_RATE
    /\ \A i \in Idx :
          particles[i].radius \in
              IF i = 1 THEN {PARTICLE_RADIUS * 2}
              ELSE IF particles[i].isAttached
                   THEN {PARTICLE_RADIUS + GROWTH_RATE}
                   ELSE {PARTICLE_RADIUS}

\* A particle grew in one call and went through another one afterwards.
GrownWitness ==
    /\ Ran
    /\ \E i \in Idx :
          /\ prev[i].isAttached
          /\ prev[i].radius = PARTICLE_RADIUS + GROWTH_RATE
          /\ particles[i].radius = PARTICLE_RADIUS + GROWTH_RATE

\* C3. Boundary containment: after initializeSimulation and after every call
\* of updateParticles every coordinate of every particle is in [-B, B].
BoundaryContainment ==
    \A i \in Idx : \A a \in Axes :
        /\ -BOUNDARY <= Pos(particles[i])[a]
        /\ Pos(particles[i])[a] <= BOUNDARY

\* A particle whose move took it beyond the boundary was put back on it.
ClampedWitness ==
    /\ Ran
    /\ \E i \in Free(prev) :
          /\ prev[i].x + prev[i].dx + Brownian(brown[i][1]) < -BOUNDARY
          /\ particles[i].x = -BOUNDARY
          /\ prev[i].y + prev[i].dy + Brownian(brown[i][2]) > BOUNDARY
          /\ particles[i].y = BOUNDARY

\* C4. Seed invariant: initializeSimulation leaves NUM_PARTICLES + 1
\* particles, the first the attached seed at the origin with twice the base
\* radius and no velocity, the others free with the base radius; no call of
\* updateParticles changes the number of particles.
SeedInvariant ==
    phase # "start" =>
        /\ Len(particles) = NUM_PARTICLES + 1
        /\ particles[1] = [x |-> 0, y |-> 0, z |-> 0,
                           radius |-> 2 * PARTICLE_RADIUS, isAttached |-> TRUE,
                           dx |-> 0, dy |-> 0, dz |-> 0]
        /\ phase = "ready" =>
              \A i \in 2..Len(particles) :
                  /\ ~particles[i].isAttached
                  /\ particles[i].radius = PARTICLE_RADIUS

\* Calls of updateParticles have run and attached a particle.
SeedAfterTicksWitness ==
    /\ Ran
    /\ ticks = 2
    /\ Len(particles) = NUM_PARTICLES + 1
    /\ \E i \in 2..Len(particles) : particles[i].isAttached

\* C8. Attachment test: a free particle that the call leaves, after its
\* move, nearer to its nearest attached particle than 0.9 times the sum of
\* their radii is attached in that call: attached flag set, radius grown by
\* GROWTH_RATE, velocity zero.  The test for ATTRACTION_RANGE around the
\* attachment test never keeps such a particle free.
AttachmentTest ==
    Ran => \A io \in Observations :
             LET i == io[1]
                 o == io[2]
             IN  (o.found /\ Collides(o.moved, o.near))
                 => /\ particles[i].isAttached
                    /\ particles[i].radius = prev[i].radius + GROWTH_RATE
                    /\ Vel(particles[i]) = <<0, 0, 0>>

\* A free particle met the attachment threshold and was attached.
ThresholdMetWitness ==
    /\ Ran
    /\ \E io \in Observations :
          /\ io[2].found
          /\ Collides(io[2].moved, io[2].near)
          /\ distance2(io[2].moved, io[2].near) > 0
          /\ particles[io[1]].isAttached

\* C9 as stated: every Brownian increment of a call of updateParticles lies
\* in [-BROWNIAN_MOTION, +BROWNIAN_MOTION].
BrownianWithinAmplitude ==
    Ran => \A i \in Free(prev) : \A a \in Axes :
             /\ -BROWNIAN_MOTION <= Brownian(brown[i][a])
             /\ Brownian(brown[i][a]) <= BROWNIAN_MOTION

\* C9, amended. Every Brownian increment of a call of updateParticles is a
\* whole multiple k * BROWNIAN_MOTION with -50 <= k <= 49 (whatever rand()
\* returns, here 0..399), so it lies in
\* [-50 * BROWNIAN_MOTION, +49 * BROWNIAN_MOTION], and it is the change of
\* the velocity component when the particle neither bounces on that axis
\* nor comes within ATTRACTION_RANGE of an attached particle.
BrownianWithinFiftyfold ==
    /\ \A r \in 0..399 :
          /\ -50 * BROWNIAN_MOTION <= Brownian(r)
          /\ Brownian(r) <= 49 * BROWNIAN_MOTION
    /\ Ran => \A io \in Observations : \A a \in Axes :
             LET i == io[1]
                 o == io[2]
                 inc == Brownian(brown[i][a])
             IN  /\ -50 * BROWNIAN_MOTION <= inc
                 /\ inc <= 49 * BROWNIAN_MOTION
                 /\ inc % BROWNIAN_MOTION = 0
                 /\ (/\ Abs(Pos(prev[i])[a] + Vel(prev[i])[a] + inc) <= BOUNDARY
                     /\ ~(o.found /\ InRange(o.moved, o.near)))
                    => Vel(particles[i])[a] = Vel(prev[i])[a] + inc

\* A free particle drew the two ends of the range in one call and kept them
\* in its velocity.
BrownianExtremesWitness ==
    /\ Ran
    /\ \E i \in Free(prev) :
          /\ Brownian(brown[i][1]) = -50 * BROWNIAN_MOTION
          /\ Brownian(brown[i][2]) = 49 * BROWNIAN_MOTION
          /\ particles[i].dx = prev[i].dx - 50 * BROWNIAN_MOTION
          /\ ~particles[i].isAttached

\* C10. Zero-distance guard: when the move of a free particle puts it
\* exactly on its nearest attached particle, the direction is left
\* unnormalized (no division by the zero length) and is zero, the attraction
\* leaves the velocity as it is, and the call ends with the particle attached
\* at that position with zero velocity and its radius grown.
ZeroDistanceGuard ==
    Ran => \A io \in Observations :
             LET i == io[1]
                 o == io[2]
             IN  (o.found /\ distance2(o.moved, o.near) = 0)
                 => /\ Direction(o.moved, o.near) = <<0, 0, 0>>
                    /\ Attract(o.moved, o.near) = o.moved
                    /\ particles[i] = Attach(o.moved)
                    /\ particles[i].isAttached
                    /\ Vel(particles[i]) = <<0, 0, 0>>
                    /\ Pos(particles[i]) = Pos(o.near)

\* A free particle landed exactly on an attached one and was attached there.
ZeroDistanceWitness ==
    /\ Ran
    /\ \E io \in Observations :
          /\ io[2].found
          /\ distance2(io[2].moved, io[2].near) = 0
          /\ particles[io[1]].isAttached

\* The orders of the particle vector, and a vector (of particles or of their
\* rand() values) put into the order f.
Orders ==
    { f \in [1..(NUM_PARTICLES + 1) -> 1..(NUM_PARTICLES + 1)] :
        \A i, j \in 1..(NUM_PARTICLES + 1) : f[i] = f[j] => i = j }
Reorder(s, f) == [i \in 1..Len(s) |-> s[f[i]]]

\* Every particle's update computed from the vector as it was before the call.
FromSnapshot(ps, b) == [i \in 1..Len(ps) |-> updateOne(ps, i, b[i])]

\* The call on the vector put into the order f gives every particle what the
\* last call gave it.
SameInOrder(f) ==
    \A ps \in {Reorder(prev, f)} : \A b \in {Reorder(brown, f)} :
        updateParticles(ps, b) = Reorder(particles, f)

\* C7 as stated: the call of updateParticles gives every particle the same
\* result in every order of the vector, when each particle keeps its rand()
\* values, and the same result as updating every particle from the state
\* before the call.
OrderIrrelevant ==
    Ran => /\ particles = FromSnapshot(prev, brown)
           /\ \A f \in Orders : SameInOrder(f)

\* No particle became attached in the last call.
NoAttachment == \A i \in Idx : particles[i].isAttached = prev[i].isAttached

\* No free particle had, within ATTRACTION_RANGE, a second attached particle
\* as near as its nearest one.
NoTie ==
    \A io \in Observations :
        (io[2].found /\ InRange(io[2].moved, io[2].near))
        => \A j \in Idx \ Free(prev) :
              j # io[2].index =>
                 distance2(io[2].moved, prev[j])
                    # distance2(io[2].moved, io[2].near)

\* C7, amended. A call of updateParticles in which no particle becomes
\* attached gives the same result as updating every particle from the state
\* before the call; if moreover no free particle has two equally near
\* nearest attached particles within ATTRACTION_RANGE, it gives every
\* particle the same result in every order of the vector.  (A particle that
\* becomes attached is seen as attached by the particles after it in the
\* vector in the same call, and of equally near attached particles the first
\* in the vector is the nearest.)
OrderIrrelevantWithoutAttachment ==
    (Ran /\ NoAttachment) =>
        /\ particles = FromSnapshot(prev, brown)
        /\ NoTie => \A f \in Orders : SameInOrder(f)

\* The condition on equally near attached particles is needed: a call that
\* attached nothing, with a free particle as near to an attached particle
\* as to the seed, whose result is another in some order of the vector.
TieChangesResult ==
    /\ Ran /\ NoAttachment /\ ~NoTie
    /\ \E f \in Orders : ~SameInOrder(f)

\* A call that attached nothing moved two free particles, one of them under
\* attraction.
TwoFreeMovedWitness ==
    /\ Ran /\ NoAttachment /\ NoTie
    /\ \E i \in Free(prev), jo \in Observations :
          /\ i < jo[1]
          /\ Pos(particles[i]) # Pos(prev[i])
          /\ Pos(particles[jo[1]]) # Pos(prev[jo[1]])
          /\ jo[2].found
          /\ InRange(jo[2].moved, jo[2].near)

\* C6. Inelastic bounce: in a call with zero Brownian draws, a free particle
\* with no attached particle within ATTRACTION_RANGE after its move, whose
\* coordinate after integration is beyond +B (or -B) on an axis, ends the
\* call with that coordinate on +B (-B) and that velocity component -0.5
\* times what it was, axis by axis; from x = B + 0.01 with dx = +0.1 it ends
\* with x = B and dx = -0.05.
InelasticBounce ==
    Ran => \A io \in Observations :
             LET i == io[1]
                 o == io[2]
             IN  (brown[i] = Calm /\ ~(o.found /\ InRange(o.moved, o.near)))
                 => /\ \A a \in Axes :
                          LET v == Vel(prev[i])[a]
                              at == Pos(prev[i])[a] + v
                          IN  /\ at > BOUNDARY =>
                                    /\ Pos(particles[i])[a] = BOUNDARY
                                    /\ 2 * Vel(particles[i])[a] = -v
                              /\ at < -BOUNDARY =>
                                    /\ Pos(particles[i])[a] = -BOUNDARY
                                    /\ 2 * Vel(particles[i])[a] = -v
                              /\ (at <= BOUNDARY /\ at >= -BOUNDARY) =>
                                    /\ Pos(particles[i])[a] = at
                                    /\ Vel(particles[i])[a] = v
                    /\ (prev[i].x = BOUNDARY + 20 * Scale /\ prev[i].dx = 200 * Scale)
                       => (particles[i].x = BOUNDARY /\ particles[i].dx = -100 * Scale)

\* The particle of the scenario bounced on +B in x, and on -B in y as well.
BounceScenarioWitness ==
    /\ Ran
    /\ \E io \in Observations :
          /\ brown[io[1]] = Calm
          /\ ~(io[2].found /\ InRange(io[2].moved, io[2].near))
          /\ prev[io[1]].x = BOUNDARY + 20 * Scale
          /\ prev[io[1]].dx = 200 * Scale
          /\ particles[io[1]].x = BOUNDARY
          /\ particles[io[1]].dx = -100 * Scale
          /\ prev[io[1]].y + prev[io[1]].dy < -BOUNDARY
          /\ particles[io[1]].y = -BOUNDARY
          /\ particles[io[1]].dy = 100 * Scale

\* C5. Attraction scenario: no call of updateParticles takes the free
\* particle farther from the seed, the particle is attached after finitely
\* many calls (AttachWithin of them at most), and once attached it stays
\* attached where it is, at rest, with its initial radius plus GROWTH_RATE.
AttractionScenario ==
    /\ Ran => distance2(particles[2], particles[1])
                 <= distance2(prev[2], prev[1])
    /\ ticks >= AttachWithin => particles[2].isAttached
    /\ particles[2].isAttached
          => /\ particles[2].radius = PARTICLE_RADIUS + GROWTH_RATE
             /\ Vel(particles[2]) = <<0, 0, 0>>
    /\ (Ran /\ prev[2].isAttached) => particles[2] = prev[2]
    /\ (Ran /\ ~prev[2].isAttached /\ ~particles[2].isAttached /\ ticks > 1)
          => distance2(particles[2], particles[1])
                < distance2(prev[2], prev[1])

\* An off-axis particle of the scenario was attached, nearer to the seed than
\* it started, and went through a further call.
AttractedWitness ==
    /\ Ran
    /\ prev[2].isAttached /\ particles[2].isAttached
    /\ particles[2].radius = PARTICLE_RADIUS + GROWTH_RATE
    /\ particles[2].x # 0 /\ particles[2].y # 0 /\ particles[2].z # 0
    /\ distance2(particles[2], particles[1]) < HalfRange * HalfRange

====
